---- MODULE Spec2Model ----
(***************************************************************************)
(* The Firebase App Distribution action: one run of src/src/index.js.      *)
(*                                                                         *)
(* A JavaScript string is modelled as a sequence of tokens (TLA+ strings). *)
(* The groups input is modelled character by character, so that            *)
(* split(',') and trim() are computed; every other text is a sequence of   *)
(* coarser tokens (a literal of the source, a path segment, a value), and  *)
(* a template literal is the concatenation of its parts.  Emoji prefixes   *)
(* of the log messages are left out.                                       *)
(*                                                                         *)
(* Every call the run makes on the platform (@actions/core), the network   *)
(* (google-auth-library, axios), the file system and the job summary is    *)
(* appended, in program order, to the history variable calls.              *)
(***************************************************************************)
EXTENDS Integers, Sequences, FiniteSets, TLC

\* Longest groups input (in characters) the environment supplies.
MaxLen == 4

\* The characters of a groups input: a letter, a blank and the separator.
Chars == {"a", " ", ","}
Whitespace == {" "}

RECURSIVE StringsUpTo(_)
StringsUpTo(n) ==
  IF n = 0 THEN {<<>>}
  ELSE LET S == StringsUpTo(n - 1)
       IN  S \cup {Append(s, c) : s \in {t \in S : Len(t) = n - 1}, c \in Chars}

\* The value JavaScript calls undefined (a response field that is absent).
Undefined == <<"<undefined>">>

\* ${v} in a template literal.
Str(v) == IF v = Undefined THEN <<"undefined">> ELSE v

---------------------------------------------------------------------------
\* String.prototype.trim, split(',') and the group names of the request body.

RECURSIVE trimStart(_)
trimStart(s) ==
  IF s # <<>> /\ Head(s) \in Whitespace THEN trimStart(Tail(s)) ELSE s

RECURSIVE trimEnd(_)
trimEnd(s) ==
  IF s # <<>> /\ s[Len(s)] \in Whitespace
  THEN trimEnd(SubSeq(s, 1, Len(s) - 1))
  ELSE s

trim(s) == trimEnd(trimStart(s))

RECURSIVE split(_, _)
split(s, sep) ==
  IF \A i \in 1..Len(s) : s[i] # sep
  THEN <<s>>
  ELSE LET i == CHOOSE k \in 1..Len(s) :
                  s[k] = sep /\ \A j \in 1..(k - 1) : s[j] # sep
       IN  <<SubSeq(s, 1, i - 1)>> \o split(SubSeq(s, i + 1, Len(s)), sep)

\* A body that keeps the entries as split leaves them (what the earlier
\* run of src/unnamed/part_000, line 60, sends).
groupNamesUntrimmed(groups) == split(groups, ",")

\* groups.split(',').map((group) => group.trim())
groupNames(groups) ==
  LET parts == split(groups, ",")
  IN  [i \in 1..Len(parts) |-> trim(parts[i])]

\* A guard that distributes whatever the groups input is.
shouldDistributeAlways(groups) == TRUE

\* if (groups): a non-empty string is truthy.
shouldDistribute(groups) == groups # <<>>

---------------------------------------------------------------------------
\* path.resolve and path.basename on paths given as sequences of segments;
\* an absolute path starts with the segment "/".

Cwd == <<"/", "work">>

RECURSIVE normalize(_, _)
normalize(segs, acc) ==
  IF segs = <<>> THEN acc
  ELSE IF Head(segs) = "." THEN normalize(Tail(segs), acc)
  ELSE IF Head(segs) = ".."
       THEN normalize(Tail(segs),
                      IF acc = <<>> THEN acc ELSE SubSeq(acc, 1, Len(acc) - 1))
  ELSE normalize(Tail(segs), Append(acc, Head(segs)))

resolve(file) ==
  IF file # <<>> /\ Head(file) = "/"
  THEN <<"/">> \o normalize(Tail(file), <<>>)
  ELSE <<"/">> \o normalize(Tail(Cwd) \o file, <<>>)

basename(p) == IF p = <<>> THEN <<>> ELSE <<p[Len(p)]>>

---------------------------------------------------------------------------
\* Errors, and the calls recorded in the history.

Error(m) == [message |-> m, stack |-> <<"Error: ">> \o m \o <<"\n    at run">>]

Call(op, name, msg) ==
  [op |-> op, name |-> name, msg |-> msg,
   body |-> <<>>, text |-> <<>>, auth |-> <<>>]

\* axios.post(url, data, { headers: { Authorization: `Bearer ${token}` } })
Post(name, url, body, text, token) ==
  [op |-> "axios.post", name |-> name, msg |-> url,
   body |-> body, text |-> text, auth |-> <<"Bearer ">> \o token]

\* core.group(name, fn): the group is opened, fn runs, the group is closed.
Group(name, inner) ==
  <<Call("startGroup", "", <<name>>)>> \o inner \o <<Call("endGroup", "", <<>>)>>

\* The names of the six steps, as run passes them to core.group.
StepParse      == "Parsing Service Account Credentials"
StepAuth       == "Initializing Google Authentication"
StepFile       == "Resolving and Verifying File Path"
StepUpload     == "Uploading the File to Firebase App Distribution"
StepDistribute == "Distributing Release to Specified Groups"
StepSummary    == "Creating Job Summary"

SuccessMessage == <<"Firebase distribution completed successfully.">>

\* The catch block of run.
runCatch(error) ==
     (IF error.message # <<>>
      THEN <<Call("setSecret", "", error.message)>> ELSE <<>>)
  \o (IF error.stack # <<>>
      THEN <<Call("setSecret", "", error.stack)>> ELSE <<>>)
  \o << Call("error", "", <<"Action failed with error: ">> \o error.message),
        Call("setFailed", "", <<"Action failed with error: ">> \o error.message) >>

---------------------------------------------------------------------------
\* What the environment supplies.

CredentialInputs ==
  { <<>>, <<"{bad">>, <<"{\"project_id\":\"p1\"}">> }
AppIdInputs  == { <<>>, <<"app1">> }
FileInputs   == { <<>>, <<"app.apk">>, <<"..", "out", ".", "app.apk">>,
                  <<"/", "abs", "app.apk">> }
GroupInputs  == StringsUpTo(MaxLen)
NotesInputs  == { <<>>, <<"notes">> }
DefaultReleaseNotes == <<"Distributed via GitHub Actions">>

\* The sets of files that may exist on disk.
FileSystems ==
  { {}, { <<"/", "work", "app.apk">> },
    { <<"/", "out", "app.apk">>, <<"/", "abs", "app.apk">> } }

\* Errors with which a collaborator (token exchange, HTTP request, summary)
\* may fail; an error may carry an empty message.
ExternalErrors ==
  { Error(<<"Request failed with status code 400">>), Error(<<>>) }

Tokens       == { <<"tok">> }
ReleaseNames == { <<"releases/r1">>, <<"releases/r2">> }

\* JSON.parse of the credential blob.
JSONparse(text) ==
  IF text = <<"{\"project_id\":\"p1\"}">>
  THEN [ok |-> TRUE, value |-> [project_id |-> <<"p1">>], error |-> Error(<<>>)]
  ELSE [ok |-> FALSE, value |-> [project_id |-> Undefined],
        error |-> Error(<<"Unexpected token in JSON">>)]

\* core.getInput: the value is trimmed.
getInput(raw) == trim(raw)

uploadUrl(projectId, appId) ==
     <<"https://firebaseappdistribution.googleapis.com/upload/v1/projects/">>
  \o Str(projectId) \o <<"/apps/">> \o appId \o <<"/releases:upload">>

distributionUrl(projectId, appId, releaseId) ==
     <<"https://firebaseappdistribution.googleapis.com/v1/projects/">>
  \o Str(projectId) \o <<"/apps/">> \o appId \o <<"/releases/">>
  \o Str(releaseId) \o <<":distribute">>

---------------------------------------------------------------------------
\* The state of one run.

VARIABLES
  pc,                 \* the statement of run that executes next
  fsFiles,            \* the absolute paths at which a file exists
  serviceCredentials, appId, file, groups, releaseNotes,   \* the inputs
  serviceAccountKey, accessToken, filePath, releaseId,     \* locals of run
  writePending,       \* the promise of core.summary.write() is unsettled
  exitCode,           \* process.exitCode
  calls               \* history of the calls made, in program order

vars == << pc, fsFiles, serviceCredentials, appId, file, groups, releaseNotes,
           serviceAccountKey, accessToken, filePath, releaseId,
           writePending, exitCode, calls >>

inputVars == << serviceCredentials, appId, file, groups, releaseNotes >>
localVars == << serviceAccountKey, accessToken, filePath, releaseId >>

Init ==
  /\ pc = "getInputs"
  /\ fsFiles \in FileSystems
  /\ serviceCredentials = <<>> /\ appId = <<>> /\ file = <<>>
  /\ groups = <<>> /\ releaseNotes = <<>>
  /\ serviceAccountKey = [project_id |-> Undefined]
  /\ accessToken = <<>> /\ filePath = <<>> /\ releaseId = Undefined
  /\ writePending = FALSE
  /\ exitCode = 0
  /\ calls = <<>>

\* The order that uploads before the file is verified.
afterStepUploadFirst(step) ==
  CASE step = "getInputs"  -> "parse"
    [] step = "parse"      -> "auth"
    [] step = "auth"       -> "upload"
    [] step = "upload"     -> "file"
    [] step = "file"       -> "distribute"
    [] step = "distribute" -> "summary"
    [] step = "summary"    -> "report"
    [] OTHER               -> "returned"

\* The order that runs the summary step before the distribution.
afterStepSummaryFirst(step) ==
  CASE step = "getInputs"  -> "parse"
    [] step = "parse"      -> "auth"
    [] step = "auth"       -> "file"
    [] step = "file"       -> "upload"
    [] step = "upload"     -> "summary"
    [] step = "summary"    -> "distribute"
    [] step = "distribute" -> "report"
    [] OTHER               -> "returned"

\* The statement of run that follows a step that completed.
afterStep(step) ==
  CASE step = "getInputs"  -> "parse"
    [] step = "parse"      -> "auth"
    [] step = "auth"       -> "file"
    [] step = "file"       -> "upload"
    [] step = "upload"     -> "distribute"
    [] step = "distribute" -> "summary"
    [] step = "summary"    -> "report"
    [] OTHER               -> "returned"

HasSetFailed(new) == \E i \in 1..Len(new) : new[i].op = "setFailed"

\* The calls new are made; core.setFailed sets process.exitCode to 1.
Emit(new) ==
  /\ calls' = calls \o new
  /\ exitCode' = IF HasSetFailed(new) THEN 1 ELSE exitCode

\* A step failed: its own calls, then the catch block of run; run returns.
Fail(new, error) ==
  /\ Emit(new \o runCatch(error))
  /\ pc' = "returned"

---------------------------------------------------------------------------
\* run, lines 16-30: the inputs are read.  A required input that is empty
\* makes core.getInput throw, which the catch block of run reports.
getInputs ==
  /\ pc = "getInputs"
  /\ \E rc \in CredentialInputs, ra \in AppIdInputs, rf \in FileInputs,
        rg \in GroupInputs, rn \in NotesInputs :
       LET start   == <<Call("info", "", <<"Starting Firebase distribution">>)>>
           missing == IF getInput(rc) = <<>>
                        THEN <<"serviceCredentialsFileContent">>
                      ELSE IF getInput(ra) = <<>> THEN <<"appId">>
                      ELSE IF getInput(rf) = <<>> THEN <<"file">>
                      ELSE <<>>
       IN  IF missing # <<>>
           THEN /\ Fail(start,
                        Error(<<"Input required and not supplied: ">> \o missing))
                /\ UNCHANGED inputVars
           ELSE /\ serviceCredentials' = getInput(rc)
                /\ appId' = getInput(ra)
                /\ file' = getInput(rf)
                /\ groups' = getInput(rg)
                /\ releaseNotes' = IF getInput(rn) # <<>> THEN getInput(rn)
                                   ELSE DefaultReleaseNotes
                /\ Emit(start \o
                        << Call("debug", "", <<"App ID: ">> \o getInput(ra)),
                           Call("debug", "", <<"File to distribute: ">> \o getInput(rf)),
                           Call("debug", "", <<"Groups: ">> \o getInput(rg)) >>)
                /\ pc' = afterStep("getInputs")
  /\ UNCHANGED << fsFiles, localVars, writePending >>

parseServiceAccountCredentials ==
  /\ pc = "parse"
  /\ LET r == JSONparse(serviceCredentials)
     IN  IF r.ok
         THEN /\ serviceAccountKey' = r.value
              /\ Emit(Group(StepParse,
                   <<Call("info", "", <<"Service Account Key parsed successfully">>)>>))
              /\ pc' = afterStep("parse")
         ELSE /\ Fail(Group(StepParse,
                   << Call("error", "",
                        <<"Failed to parse serviceCredentialsFileContent. Ensure it is valid JSON.">>),
                      Call("setFailed", "",
                        <<"Failed to parse serviceCredentialsFileContent. Ensure it is valid JSON.">>) >>),
                   r.error)
              /\ UNCHANGED serviceAccountKey
  /\ UNCHANGED << fsFiles, inputVars, accessToken, filePath, releaseId, writePending >>

\* The token exchange rejects, or answers with a token that may be empty.
initializeGoogleAuthentication ==
  /\ pc = "auth"
  /\ LET exchange == Call("getAccessToken", "", <<"https://www.googleapis.com/auth/firebase">>)
         authFailed ==
           << Call("error", "", <<"Google Authentication failed.">>),
              Call("setFailed", "", <<"Google Authentication failed.">>) >>
     IN  \/ \E e \in ExternalErrors :
              /\ Fail(Group(StepAuth, <<exchange>> \o authFailed), e)
              /\ UNCHANGED accessToken
         \/ \E token \in Tokens \cup {<<>>} :
              IF token = <<>>
              THEN /\ Fail(Group(StepAuth,
                        << exchange,
                           Call("error", "", <<"Failed to obtain access token.">>),
                           Call("setFailed", "", <<"Failed to obtain access token.">>) >>
                        \o authFailed),
                        Error(<<"Access token missing">>))
                   /\ UNCHANGED accessToken
              ELSE /\ accessToken' = token
                   /\ Emit(Group(StepAuth,
                        << exchange,
                           Call("info", "", <<"Access Token obtained successfully">>) >>))
                   /\ pc' = afterStep("auth")
  /\ UNCHANGED << fsFiles, inputVars, serviceAccountKey, filePath, releaseId, writePending >>

\* A message that names the path as it was given.
fileNotFoundMessageAsGiven(given, resolved) ==
  <<"File \"">> \o given \o <<"\" not found.">>

\* `File "${filePath}" not found.`
fileNotFoundMessage(given, resolved) ==
  <<"File \"">> \o resolved \o <<"\" not found.">>

resolveAndVerifyFilePath ==
  /\ pc = "file"
  /\ LET resolved == resolve(file)
         checked  ==
           << Call("debug", "", <<"Resolved file path: ">> \o resolved),
              Call("fs.existsSync", "", resolved) >>
     IN  IF resolved \notin fsFiles
         THEN /\ Fail(Group(StepFile, checked \o
                   << Call("error", "", fileNotFoundMessage(file, resolved)),
                      Call("setFailed", "", fileNotFoundMessage(file, resolved)),
                      Call("error", "", <<"Error resolving file path: ">> \o <<"File not found">>),
                      Call("setFailed", "", <<"Error resolving file path: ">> \o <<"File not found">>) >>),
                   Error(<<"File not found">>))
              /\ UNCHANGED filePath
         ELSE /\ filePath' = resolved
              /\ Emit(Group(StepFile, checked \o
                   <<Call("info", "",
                       <<"File \"">> \o resolved \o <<"\" exists and is ready for distribution">>)>>))
              /\ pc' = afterStep("file")
  /\ UNCHANGED << fsFiles, inputVars, serviceAccountKey, accessToken, releaseId, writePending >>

\* The release id is logged but the output is left to a later statement
\* (src/unnamed/part_000 sets it after the distribution, line 71).
uploadSucceededNoOutput(id) ==
  << Call("info", "", <<"Upload successful. Release ID: ">> \o Str(id)) >>

\* The release id set as an output under another key.
uploadSucceededWrongKey(id) ==
  << Call("info", "", <<"Upload successful. Release ID: ">> \o Str(id)),
     Call("setOutput", "releaseId", id) >>

\* uploadFile, lines 176-180: the release id is logged and set as the output.
uploadSucceeded(id) ==
  << Call("info", "", <<"Upload successful. Release ID: ">> \o Str(id)),
     Call("setOutput", "releaseName", id) >>

\* The upload request rejects, or answers with a body whose name may be absent.
uploadFile ==
  /\ pc = "upload"
  /\ LET url  == uploadUrl(serviceAccountKey.project_id, appId)
         sent == << Call("debug", "", <<"Upload URL: ">> \o url),
                    Call("info", "", <<"Initiating file upload...">>),
                    Post("upload", url, <<basename(filePath)>>, <<>>, accessToken) >>
     IN  \/ \E e \in ExternalErrors :
              /\ Fail(Group(StepUpload, sent \o
                   << Call("error", "", <<"File upload failed: ">> \o e.message),
                      Call("setFailed", "", <<"File upload failed: ">> \o e.message) >>),
                   e)
              /\ UNCHANGED releaseId
         \/ \E name \in ReleaseNames \cup {Undefined} :
              /\ releaseId' = name
              /\ Emit(Group(StepUpload, sent \o
                   <<Call("debug", "", <<"Upload Response: ">> \o Str(name))>>
                   \o uploadSucceeded(name)))
              /\ pc' = afterStep("upload")
  /\ UNCHANGED << fsFiles, inputVars, serviceAccountKey, accessToken, filePath, writePending >>

\* run, lines 45-48, and distributeRelease: with no groups the step is
\* skipped; otherwise the distribute request succeeds or rejects.
distributeRelease ==
  /\ pc = "distribute"
  /\ IF ~shouldDistribute(groups)
     THEN /\ pc' = afterStep("distribute")
          /\ UNCHANGED << calls, exitCode >>
     ELSE LET url  == distributionUrl(serviceAccountKey.project_id, appId, releaseId)
              sent == << Call("debug", "", <<"Distribution URL: ">> \o url),
                         Call("info", "", <<"Distributing release to groups: ">> \o groups),
                         Post("distribute", url, groupNames(groups), releaseNotes, accessToken) >>
          IN  \/ \E e \in ExternalErrors :
                   Fail(Group(StepDistribute, sent \o
                     << Call("error", "", <<"Release distribution failed: ">> \o e.message),
                        Call("setFailed", "", <<"Release distribution failed: ">> \o e.message) >>),
                     e)
              \/ /\ Emit(Group(StepDistribute, sent \o
                      <<Call("info", "", <<"Distributed successfully to groups: ">> \o groups)>>))
                 /\ pc' = afterStep("distribute")
  /\ UNCHANGED << fsFiles, inputVars, localVars, writePending >>

\* createJobSummary: building the summary throws, or core.summary.write()
\* is called; its promise is not awaited, so the step goes on while the
\* write is unsettled.
createJobSummary ==
  /\ pc = "summary"
  /\ LET content ==
              <<"Firebase Distribution Summary", "**App ID:** ">> \o appId
           \o <<"**Release ID:** ">> \o Str(releaseId)
           \o (IF groups # <<>> THEN <<"**Distributed to Groups:** ">> \o groups
               ELSE <<"No groups specified">>)
     IN  \/ \E e \in ExternalErrors :
              /\ Fail(Group(StepSummary,
                   << Call("error", "", <<"Failed to create job summary: ">> \o e.message),
                      Call("setFailed", "", <<"Failed to create job summary: ">> \o e.message) >>),
                   e)
              /\ UNCHANGED writePending
         \/ /\ writePending' = TRUE
            /\ Emit(Group(StepSummary,
                 << Call("summary.write", "", content),
                    Call("info", "", <<"Job summary created successfully.">>) >>))
            /\ pc' = afterStep("summary")
  /\ UNCHANGED << fsFiles, inputVars, localVars >>

\* run, line 53.
reportSuccess ==
  /\ pc = "report"
  /\ Emit(<<Call("info", "", SuccessMessage)>>)
  /\ pc' = "returned"
  /\ UNCHANGED << fsFiles, inputVars, localVars, writePending >>

\* The promise of core.summary.write() settles after run has returned: run
\* has only microtasks left when the write is started.  A rejection has
\* no handler; under node20 (action.yml, runs.using) an unhandled rejection
\* ends the process with exit code 1.
summaryWriteSettles ==
  /\ pc = "returned"
  /\ writePending
  /\ \/ /\ writePending' = FALSE
        /\ UNCHANGED << pc, exitCode, calls >>
     \/ \E e \in ExternalErrors :
          /\ writePending' = FALSE
          /\ calls' = Append(calls, Call("unhandledRejection", "", e.stack))
          /\ exitCode' = 1
          /\ pc' = "exited"
  /\ UNCHANGED << fsFiles, inputVars, localVars >>

\* Nothing is pending: the process exits with process.exitCode.
processExit ==
  /\ pc = "returned"
  /\ ~writePending
  /\ pc' = "exited"
  /\ UNCHANGED << fsFiles, inputVars, localVars, writePending, exitCode, calls >>

Next ==
  \/ getInputs
  \/ parseServiceAccountCredentials
  \/ initializeGoogleAuthentication
  \/ resolveAndVerifyFilePath
  \/ uploadFile
  \/ distributeRelease
  \/ createJobSummary
  \/ reportSuccess
  \/ summaryWriteSettles
  \/ processExit

Spec == Init /\ [][Next]_vars

---------------------------------------------------------------------------
\* Vocabulary of the properties, read off the history of calls.

CallsOf(op) == { i \in 1..Len(calls) : calls[i].op = op }
Requests(name) ==
  { i \in 1..Len(calls) : calls[i].op = "axios.post" /\ calls[i].name = name }
NetworkCalls ==
  { i \in 1..Len(calls) : calls[i].op \in {"getAccessToken", "axios.post"} }
SetFailedCalled == CallsOf("setFailed") # {}
ReleaseNameOutputs ==
  { i \in CallsOf("setOutput") : calls[i].name = "releaseName" }
SuccessReported ==
  \E i \in CallsOf("info") : calls[i].msg = SuccessMessage

\* sub occurs in msg as a contiguous part.
Contains(msg, sub) ==
  \E i \in 1..(Len(msg) - Len(sub) + 1) : SubSeq(msg, i, i + Len(sub) - 1) = sub

\* Where a step starts, and where its group is closed.
StartOf(step) ==
  { i \in CallsOf("startGroup") : calls[i].msg = <<step>> }
EndAfter(i) ==
  CHOOSE j \in (i + 1)..Len(calls) :
    calls[j].op = "endGroup" /\ \A k \in (i + 1)..(j - 1) : calls[k].op # "endGroup"
StepStarted(step) == StartOf(step) # {}
\* The step reported an error before its group was closed.
StepFailed(step) ==
  \E i \in StartOf(step) :
    \E k \in CallsOf("error") \cup CallsOf("setFailed") : i < k /\ k < EndAfter(i)
StepCompleted(step) == StepStarted(step) /\ ~StepFailed(step)

\* core.summary.write() was called and its promise has resolved.
SummaryWritten ==
  /\ CallsOf("summary.write") # {}
  /\ ~writePending
  /\ CallsOf("unhandledRejection") = {}

Exited    == pc = "exited"
Succeeded == pc = "exited" /\ exitCode = 0

---------------------------------------------------------------------------
\* C1: when the credentials parse, a non-empty token is obtained, the file
\* exists, the upload endpoint answers with { name: n }, the distribute
\* request (sent when groups is non-empty) succeeds and the summary is
\* written, the run sets the output releaseName to exactly n and never
\* calls setFailed.
C1_ReleaseNameOutput ==
  ( /\ Exited
    /\ StepCompleted(StepParse) /\ StepCompleted(StepAuth)
    /\ StepCompleted(StepFile)
    /\ Requests("upload") # {} /\ StepCompleted(StepUpload)
    /\ releaseId \in ReleaseNames
    /\ (groups # <<>> => StepCompleted(StepDistribute))
    /\ SummaryWritten )
  => /\ ReleaseNameOutputs # {}
     /\ \A i \in ReleaseNameOutputs : calls[i].msg = releaseId
     /\ ~SetFailedCalled
     /\ exitCode = 0

C1_Witness ==
  /\ Exited
  /\ StepCompleted(StepUpload) /\ releaseId = <<"releases/r1">>
  /\ groups # <<>> /\ StepCompleted(StepDistribute)
  /\ SummaryWritten
  /\ \E i \in ReleaseNameOutputs : calls[i].msg = <<"releases/r1">>

\* C2: when the upload succeeded and the distribute request is rejected,
\* the run signals failure, the rejected distribute request is the last
\* request sent, and the releaseName output that was emitted after the
\* upload, before the distribute request, carries the uploaded release id.
C2_DistributeRejected ==
  ( Requests("distribute") # {} /\ StepFailed(StepDistribute) )
  => /\ groups # <<>>
     /\ SetFailedCalled /\ exitCode = 1
     /\ ~SuccessReported
     /\ \A d \in Requests("distribute") :
          /\ \A k \in NetworkCalls : k <= d
          /\ \E o \in ReleaseNameOutputs :
               /\ o < d
               /\ calls[o].msg = releaseId
               /\ \E u \in Requests("upload") : u < o
     /\ \A o \in ReleaseNameOutputs : calls[o].msg = releaseId

C2_Witness ==
  /\ Exited
  /\ Requests("distribute") # {} /\ StepFailed(StepDistribute)
  /\ releaseId = <<"releases/r1">>
  /\ groups = <<"a">>

\* C3 as stated: with an empty groups input no distribute request is sent
\* and the run succeeds whenever the steps up to the upload succeed.
C3_SucceedsOnUploadAlone ==
  ( Exited /\ groups = <<>> /\ StepCompleted(StepUpload) )
  => /\ Requests("distribute") = {}
     /\ ~SetFailedCalled
     /\ exitCode = 0

\* C3, amended: with an empty groups input no distribute request is sent
\* and the distribute step never starts; the run succeeds whenever the
\* steps up to the upload succeed and the job summary is then created and
\* written without error.
C3_NoGroupsNoDistribute ==
  /\ groups = <<>> =>
       Requests("distribute") = {} /\ ~StepStarted(StepDistribute)
  /\ ( Exited /\ groups = <<>> /\ StepCompleted(StepUpload)
       /\ StepCompleted(StepSummary) /\ SummaryWritten )
     => ~SetFailedCalled /\ exitCode = 0 /\ SuccessReported

C3_Witness ==
  /\ Exited /\ groups = <<>>
  /\ StepCompleted(StepUpload) /\ StepCompleted(StepSummary) /\ SummaryWritten
  /\ exitCode = 0

\* The absolute path of each file input, with /work the working directory.
AbsolutePathOf(f) ==
  CASE f = <<"app.apk">>                   -> <<"/", "work", "app.apk">>
    [] f = <<"..", "out", ".", "app.apk">> -> <<"/", "out", "app.apk">>
    [] f = <<"/", "abs", "app.apk">>       -> <<"/", "abs", "app.apk">>
    [] OTHER                               -> <<"/", "work">>

FileChecked == CallsOf("fs.existsSync") # {}

\* C4: when the file input resolves to a path at which no file exists, the
\* file step fails, a failure message reported with setFailed contains the
\* resolved absolute path, and no upload or distribute request is sent.
C4_FileNotFound ==
  /\ ( FileChecked /\ AbsolutePathOf(file) \notin fsFiles )
     => /\ StepFailed(StepFile)
        /\ exitCode = 1
        /\ \E i \in CallsOf("setFailed") :
             Contains(calls[i].msg, AbsolutePathOf(file))
        /\ ~SuccessReported
  /\ ( file # <<>> /\ AbsolutePathOf(file) \notin fsFiles )
     => CallsOf("axios.post") = {}

C4_Witness ==
  /\ Exited
  /\ file = <<"..", "out", ".", "app.apk">>
  /\ <<"/", "out", "app.apk">> \notin fsFiles
  /\ StepFailed(StepFile)
  /\ \E i \in CallsOf("setFailed") :
       Contains(calls[i].msg, <<"/", "out", "app.apk">>)

\* The positions of the commas of s, and the k-th comma-separated entry.
Commas(s) == { i \in 1..Len(s) : s[i] = "," }
EntryStart(s, k) ==
  IF k = 1 THEN 1
  ELSE 1 + (CHOOSE i \in Commas(s) :
              Cardinality({ j \in Commas(s) : j < i }) = k - 2)
EntryEnd(s, k) ==
  IF k = Cardinality(Commas(s)) + 1 THEN Len(s)
  ELSE (CHOOSE i \in Commas(s) :
          Cardinality({ j \in Commas(s) : j < i }) = k - 1) - 1
Entry(s, k) == SubSeq(s, EntryStart(s, k), EntryEnd(s, k))
\* t is e without the whitespace at its two ends.
IsTrimOf(t, e) ==
  /\ t = <<>> \/ (t[1] \notin Whitespace /\ t[Len(t)] \notin Whitespace)
  /\ \E i \in 1..(Len(e) + 1) :
       /\ SubSeq(e, i, i + Len(t) - 1) = t
       /\ i + Len(t) - 1 <= Len(e)
       /\ \A j \in 1..Len(e) : (j < i \/ j > i + Len(t) - 1) => e[j] \in Whitespace

\* C5: the groupNames of every distribute request are the comma-separated
\* entries of the groups input, in input order, each without its leading
\* and trailing whitespace; no entry begins or ends with whitespace.
C5_GroupNamesTrimmed ==
  \A d \in Requests("distribute") :
    LET names == calls[d].body
    IN  /\ Len(names) = Cardinality(Commas(groups)) + 1
        /\ \A k \in 1..Len(names) :
             /\ IsTrimOf(names[k], Entry(groups, k))
             /\ names[k] # <<>> =>
                  /\ names[k][1] \notin Whitespace
                  /\ names[k][Len(names[k])] \notin Whitespace

C5_Witness ==
  \E d \in Requests("distribute") :
    /\ groups = <<"a", ",", " ", "a">>
    /\ calls[d].body = << <<"a">>, <<"a">> >>

\* The steps that started, in the order in which they started.
StepsStarted == SelectSeq(calls, LAMBDA c : c.op = "startGroup")
Rank(c) ==
  CASE c.msg = <<StepParse>>      -> 1
    [] c.msg = <<StepAuth>>       -> 2
    [] c.msg = <<StepFile>>       -> 3
    [] c.msg = <<StepUpload>>     -> 4
    [] c.msg = <<StepDistribute>> -> 5
    [] c.msg = <<StepSummary>>    -> 6
    [] OTHER                      -> 0
\* Every call in ops is made inside the group of step.
InsideStep(ops, step) ==
  \A i \in ops : \E g \in StartOf(step) : g < i /\ i < EndAfter(g)

\* C6 as stated: once a step has failed (a failure was reported, or the
\* summary write was rejected) no later step acts, failure is signalled and
\* the success message is never emitted; with malformed credentials no
\* token exchange and no request is attempted.
C6_FailureAbsorbing ==
  LET failures == CallsOf("setFailed") \cup CallsOf("unhandledRejection")
  IN  /\ failures # {} =>
           /\ exitCode = 1
           /\ ~SuccessReported
           /\ \A f \in failures : \A k \in 1..Len(calls) :
                k > f => calls[k].op \notin
                  {"startGroup", "getAccessToken", "fs.existsSync",
                   "axios.post", "summary.write", "setOutput"}
      /\ StepFailed(StepParse) =>
           NetworkCalls = {} /\ ~StepStarted(StepAuth) /\ ~StepStarted(StepUpload)

\* C7: the steps start in the order credential parse, token exchange, file
\* check, upload, distribute, summary, each at most once and only after the
\* previous one completed; the distribute step is left out exactly when
\* groups is empty; each collaborator is called inside its own step; the
\* run succeeds only if steps 1-4 and 6 completed and the distribute step
\* completed or was skipped for an empty groups input.
C7_StrictOrder ==
  LET S == StepsStarted
  IN  /\ Len(S) > 0 => Rank(S[1]) = 1
      /\ \A k \in 1..(Len(S) - 1) :
           /\ \/ Rank(S[k + 1]) = Rank(S[k]) + 1
              \/ Rank(S[k]) = 4 /\ Rank(S[k + 1]) = 6 /\ groups = <<>>
           /\ StepCompleted(S[k].msg[1])
      /\ groups = <<>> => ~StepStarted(StepDistribute)
      /\ InsideStep(CallsOf("getAccessToken"), StepAuth)
      /\ InsideStep(CallsOf("fs.existsSync"), StepFile)
      /\ InsideStep(Requests("upload"), StepUpload)
      /\ InsideStep(Requests("distribute"), StepDistribute)
      /\ InsideStep(CallsOf("summary.write"), StepSummary)
      /\ \A op \in {"getAccessToken", "fs.existsSync", "axios.post", "summary.write"} :
           \A name \in {"", "upload", "distribute"} :
             Cardinality({ i \in CallsOf(op) : calls[i].name = name }) <= 1
      /\ Succeeded =>
           /\ StepCompleted(StepParse) /\ StepCompleted(StepAuth)
           /\ StepCompleted(StepFile) /\ StepCompleted(StepUpload)
           /\ StepCompleted(StepSummary) /\ SummaryWritten
           /\ \/ StepCompleted(StepDistribute)
              \/ groups = <<>> /\ ~StepStarted(StepDistribute)
           /\ SuccessReported

C7_Witness ==
  /\ Succeeded
  /\ Len(StepsStarted) = 6
  /\ StepCompleted(StepDistribute)

\* C8 as stated: the existence check happens once and before any network
\* call: no token exchange, upload or distribute request precedes it, and
\* a run with a non-existent file makes no network call at all.
C8_CheckBeforeAnyNetworkCall ==
  /\ Cardinality(CallsOf("fs.existsSync")) <= 1
  /\ \A n \in NetworkCalls : \E c \in CallsOf("fs.existsSync") : c < n
  /\ ( FileChecked /\ AbsolutePathOf(file) \notin fsFiles ) => NetworkCalls = {}

\* C8, amended: the existence check happens at most once, after the token
\* exchange and before any upload or distribute request; a run with a
\* non-existent file sends no upload and no distribute request, and the
\* only network call it has made is the token exchange.
C8_CheckBeforeUpload ==
  /\ Cardinality(CallsOf("fs.existsSync")) <= 1
  /\ \A r \in CallsOf("axios.post") : \E c \in CallsOf("fs.existsSync") : c < r
  /\ \A c \in CallsOf("fs.existsSync") : \E t \in CallsOf("getAccessToken") : t < c
  /\ ( FileChecked /\ AbsolutePathOf(file) \notin fsFiles ) =>
       /\ CallsOf("axios.post") = {}
       /\ Cardinality(CallsOf("getAccessToken")) = 1

C8_Witness ==
  /\ Exited
  /\ FileChecked /\ AbsolutePathOf(file) \notin fsFiles
  /\ CallsOf("getAccessToken") # {}
  /\ CallsOf("axios.post") = {}

\* The non-empty messages an error of the run can carry.
ErrorTexts ==
  ( { e.message : e \in ExternalErrors } \cup
    { <<"Unexpected token in JSON">>, <<"Access token missing">>,
      <<"File not found">> } ) \ { <<>> }

\* C9 as stated: an error's message is registered with core.setSecret
\* before any core.error or core.setFailed output that contains it.
C9_SecretBeforeLog ==
  \A i \in CallsOf("error") \cup CallsOf("setFailed") :
    \A m \in ErrorTexts :
      Contains(calls[i].msg, m) =>
        \E j \in CallsOf("setSecret") : j < i /\ calls[j].msg = m

\* C10 as stated: a groups input that names no group leads to no distribute
\* request, and every distribute request carries at least one non-empty
\* group name and no empty one.
C10_NoEmptyGroupSet ==
  /\ (\A i \in 1..Len(groups) : groups[i] \in Whitespace \cup {","})
       => Requests("distribute") = {}
  /\ \A d \in Requests("distribute") :
       /\ Len(calls[d].body) >= 1
       /\ \A k \in 1..Len(calls[d].body) : calls[d].body[k] # <<>>

====
